---- MODULE Spec2Model ----
(***************************************************************************)
(* Maya intake parser (main.js, jsonParser.js, sheetBuilder.js,            *)
(* lockManager.js): the JSON flattening engine, the duplicate-id guard,    *)
(* the versioned sheet naming and the orchestration that writes a sheet.   *)
(***************************************************************************)
EXTENDS Integers, Sequences, FiniteSets, TLC

(***************************************************************************)
(* JavaScript values, as the parsed JSON document holds them.  An object   *)
(* is the sequence of its [key, value] entries in Object.entries order.    *)
(***************************************************************************)
Undef == [t |-> "undefined"]
Null == [t |-> "null"]
Str(s) == [t |-> "string", s |-> s]
Num(n) == [t |-> "number", n |-> n]
Bool(b) == [t |-> "boolean", b |-> b]
Obj(e) == [t |-> "object", e |-> e]
Arr(a) == [t |-> "array", a |-> a]

\* JavaScript truthiness: !v is TRUE for undefined, null, "", 0 and false.
Truthy(v) ==
  CASE v.t = "undefined" -> FALSE
    [] v.t = "null" -> FALSE
    [] v.t = "string" -> v.s # ""
    [] v.t = "number" -> v.n # 0
    [] v.t = "boolean" -> v.b
    [] OTHER -> TRUE

\* a || b
Or(a, b) == IF Truthy(a) THEN a ELSE b

\* typeof v (null and arrays are "object")
TypeOf(v) == IF v.t \in {"null", "array"} THEN "object" ELSE v.t

\* Reading a property of undefined or null raises TypeError.
CanRead(v) == v.t \notin {"undefined", "null"}

HasKey(v, k) == v.t = "object" /\ \E i \in 1..Len(v.e) : v.e[i][1] = k

\* v.k for a value that can be read: own property of an object, else undefined.
Get(v, k) ==
  IF HasKey(v, k)
  THEN v.e[CHOOSE i \in 1..Len(v.e) : v.e[i][1] = k][2]
  ELSE Undef

RECURSIVE JoinStrings(_, _)
JoinStrings(ss, sep) ==
  IF Len(ss) = 0 THEN ""
  ELSE IF Len(ss) = 1 THEN ss[1]
  ELSE ss[1] \o sep \o JoinStrings(Tail(ss), sep)

\* String(v) / `${v}`
RECURSIVE ToStr(_)
ToStr(v) ==
  CASE v.t = "undefined" -> "undefined"
    [] v.t = "null" -> "null"
    [] v.t = "string" -> v.s
    [] v.t = "number" -> ToString(v.n)
    [] v.t = "boolean" -> (IF v.b THEN "true" ELSE "false")
    [] v.t = "array" ->
         JoinStrings([i \in 1..Len(v.a) |->
                        IF CanRead(v.a[i]) THEN ToStr(v.a[i]) ELSE ""], ",")
    [] OTHER -> "[object Object]"

\* Array.prototype.join(sep): null and undefined elements render as "".
ArrayJoin(a, sep) ==
  JoinStrings([i \in 1..Len(a) |-> IF CanRead(a[i]) THEN ToStr(a[i]) ELSE ""], sep)

\* Object.entries(v) for objects, arrays and the primitives without entries.
Entries(v) ==
  CASE v.t = "object" -> v.e
    [] v.t = "array" -> [i \in 1..Len(v.a) |-> <<ToString(i - 1), v.a[i]>>]
    [] OTHER -> <<>>

\* Completion of a call: a returned value or a thrown error.
Return(v) == [threw |-> FALSE, value |-> v]
Throw(m) == [threw |-> TRUE, error |-> m]

TypeErrorMsg == "TypeError"

(***************************************************************************)
(* jsonParser.js: field formatters                                         *)
(***************************************************************************)
formatValidation_NoFalsyGuard(validation) ==
  IF validation.t = "string" THEN validation.s
  ELSE IF validation.t = "number" THEN "max_length: " \o ToStr(validation)
  ELSE IF validation.t \in {"object", "array"} THEN
    JoinStrings([i \in 1..Len(Entries(validation)) |->
                   Entries(validation)[i][1] \o ": "
                     \o ToStr(Entries(validation)[i][2])], ", ")
  ELSE ""

formatValidation(validation) ==
  IF ~Truthy(validation) THEN ""
  ELSE IF TypeOf(validation) = "string" THEN validation.s
  ELSE IF TypeOf(validation) = "number" THEN "max_length: " \o ToStr(validation)
  ELSE IF TypeOf(validation) = "object" THEN
    JoinStrings([i \in 1..Len(Entries(validation)) |->
                   Entries(validation)[i][1] \o ": "
                     \o ToStr(Entries(validation)[i][2])], ", ")
  ELSE ""

formatMapsTo(mapsTo) ==
  IF ~Truthy(mapsTo) THEN ""
  ELSE IF mapsTo.t = "array" THEN ArrayJoin(mapsTo.a, ", ")
  ELSE ToStr(mapsTo)

formatExamples(examples) ==
  IF ~Truthy(examples) THEN ""
  ELSE IF examples.t = "array" THEN ArrayJoin(examples.a, " | ")
  ELSE ToStr(examples)

\* options.map(opt => opt.value || opt.label) raises TypeError on a null option.
formatOptions(options) ==
  IF ~Truthy(options) THEN Return("")
  ELSE IF options.t = "array" THEN
    LET first == IF Len(options.a) > 0 THEN options.a[1] ELSE Undef IN
    IF TypeOf(first) = "string" THEN Return(ArrayJoin(options.a, " | "))
    ELSE IF TypeOf(first) = "object" THEN
      IF \E i \in 1..Len(options.a) : ~CanRead(options.a[i])
      THEN Throw(TypeErrorMsg)
      ELSE Return(ArrayJoin([i \in 1..Len(options.a) |->
                               Or(Get(options.a[i], "value"),
                                  Get(options.a[i], "label"))], " | "))
    ELSE Return("")
  ELSE Return("")

(***************************************************************************)
(* jsonParser.js: row projector                                            *)
(***************************************************************************)
isComplexType(type) ==
  type.t = "string" /\
  type.s \in {"service_object", "testimonial_object", "social_links_object",
              "text_array", "file_upload"}

processStandardQuestion(question, section) ==
  IF ~CanRead(section) \/ ~CanRead(question) THEN Throw(TypeErrorMsg)
  ELSE IF formatOptions(Get(question, "options")).threw THEN Throw(TypeErrorMsg)
  ELSE Return(<<
    Or(Get(section, "section_id"), Str("")),
    Or(Get(section, "section_name"), Str("")),
    Or(Get(question, "id"), Str("")),
    Or(Get(question, "question"), Str("")),
    Or(Get(question, "context"), Str("")),
    Or(Get(question, "type"), Str("text")),
    IF Get(question, "required") # Undef THEN Get(question, "required")
    ELSE Bool(TRUE),
    Str(formatValidation(Get(question, "validation"))),
    Str(formatMapsTo(Get(question, "maps_to"))),
    Or(Get(question, "default"), Str("")),
    Str(formatExamples(Get(question, "examples"))),
    Str(formatOptions(Get(question, "options")).value) >>)

DefaultMaxItems == 10

\* The child row of one entry of question.fields (service_object, testimonial_object).
objectFieldRow(question, section, fieldName, fieldConfig) ==
  << Or(Get(section, "section_id"), Str("")),
     Or(Get(section, "section_name"), Str("")),
     Str(ToStr(Get(question, "id")) \o "." \o fieldName),
     Str(ToStr(Get(question, "question")) \o " - " \o fieldName),
     Or(Get(question, "context"), Str("")),
     Or(Get(fieldConfig, "type"), Str("text")),
     Or(Get(fieldConfig, "required"), Bool(FALSE)),
     Str(formatValidation(Or(Get(fieldConfig, "validation"),
                             Get(fieldConfig, "max_length")))),
     Str(formatMapsTo(Get(question, "maps_to")) \o "." \o fieldName),
     Or(Get(fieldConfig, "default"), Str("")),
     Str(""),
     Str("") >>

\* The child row of one entry of question.fields (social_links_object).
socialLinkRow(question, section, platform, config) ==
  << Or(Get(section, "section_id"), Str("")),
     Or(Get(section, "section_name"), Str("")),
     Str(ToStr(Get(question, "id")) \o "." \o platform),
     Str(ToStr(Get(question, "question")) \o " - " \o platform),
     Or(Get(question, "context"), Str("")),
     Or(Get(config, "type"), Str("url")),
     Or(Get(config, "required"), Bool(FALSE)),
     Str("format: url"),
     Str(formatMapsTo(Get(question, "maps_to")) \o "." \o platform),
     Str(""),
     Str(""),
     Str("") >>

\* The file_upload branch: the validation string built from file_types and max_size.
fileValidation_Append(question, parentValidation) ==
  LET ft == Get(question, "file_types")
      ms == Get(question, "max_size")
      parts == (IF parentValidation # "" THEN <<parentValidation>> ELSE <<>>)
               \o (IF Truthy(ft)
                   THEN <<"file_types: " \o ArrayJoin(ft.a, ",")>> ELSE <<>>)
               \o (IF Truthy(ms) THEN <<"max_size: " \o ToStr(ms)>> ELSE <<>>)
  IN JoinStrings(parts, ", ")

fileValidation(question, parentValidation) ==
  LET ft == Get(question, "file_types")
      ms == Get(question, "max_size")
      parts == (IF Truthy(ft)
                THEN <<"file_types: " \o ArrayJoin(ft.a, ",")>> ELSE <<>>)
               \o (IF Truthy(ms) THEN <<"max_size: " \o ToStr(ms)>> ELSE <<>>)
  IN JoinStrings(parts, ", ")

\* The rows pushed after the parent row, one per entry of question.fields.
childRows_None(question, section) == <<>>

childRows(question, section) ==
  LET type == Get(question, "type").s
      fields == Get(question, "fields")
      es == Entries(fields)
  IN IF type \in {"service_object", "testimonial_object"} /\ Truthy(fields)
     THEN [i \in 1..Len(es) |-> objectFieldRow(question, section, es[i][1], es[i][2])]
     ELSE IF type = "social_links_object" /\ Truthy(fields)
     THEN [i \in 1..Len(es) |-> socialLinkRow(question, section, es[i][1], es[i][2])]
     ELSE <<>>

childRowsThrow_Never(question) == FALSE

\* Whether the loop over question.fields reads a property of a null entry.
childRowsThrow(question) ==
  LET type == Get(question, "type").s
      fields == Get(question, "fields")
      es == Entries(fields)
  IN /\ type \in {"service_object", "testimonial_object", "social_links_object"}
     /\ Truthy(fields)
     /\ \E i \in 1..Len(es) : ~CanRead(es[i][2])

\* The rows of a complex question, parent being its standard row.
complexRows(question, section, parent) ==
  IF parent.threw THEN parent
  ELSE IF childRowsThrow(question) THEN Throw(TypeErrorMsg)
  ELSE IF Get(question, "type").s = "text_array" THEN
    Return(<<[parent.value EXCEPT ![8] =
                Str("max_items: "
                    \o ToStr(Or(Get(question, "max_items"), Num(DefaultMaxItems)))
                    \o ", " \o parent.value[8].s)]>>)
  ELSE IF Get(question, "type").s = "file_upload" THEN
    IF Truthy(Get(question, "file_types")) /\ Get(question, "file_types").t # "array"
    THEN Throw(TypeErrorMsg)
    ELSE Return(<<[parent.value EXCEPT ![8] =
                     Str(fileValidation(question, parent.value[8].s))]>>)
  ELSE Return(<<parent.value>> \o childRows(question, section))

processComplexType(question, section) ==
  complexRows(question, section, processStandardQuestion(question, section))

(***************************************************************************)
(* jsonParser.js: flattening engine                                        *)
(***************************************************************************)
\* rows.push(row) for a standard question
singleRow(r) == IF r.threw THEN r ELSE Return(<<r.value>>)

\* The rows one question contributes
questionRows(question, section) ==
  IF ~CanRead(question) THEN Throw(TypeErrorMsg)
  ELSE IF isComplexType(Get(question, "type"))
  THEN processComplexType(question, section)
  ELSE singleRow(processStandardQuestion(question, section))

\* section.questions.forEach(...) from question i on, rows being the accumulator;
\* pushed are the rows of question i.
RECURSIVE flattenQuestions(_, _, _, _)
RECURSIVE pushQuestion(_, _, _, _, _)
pushQuestion(questions, section, i, rows, pushed) ==
  IF pushed.threw THEN pushed
  ELSE flattenQuestions(questions, section, i + 1, rows \o pushed.value)

flattenQuestions(questions, section, i, rows) ==
  IF i > Len(questions) THEN Return(rows)
  ELSE pushQuestion(questions, section, i, rows, questionRows(questions[i], section))

\* sections.forEach(...) from section i on; done is the outcome of section i.
RECURSIVE flattenSections(_, _, _)
RECURSIVE nextSection(_, _, _)
nextSection(sections, i, done) ==
  IF done.threw THEN done ELSE flattenSections(sections, i + 1, done.value)

flattenSections(sections, i, rows) ==
  IF i > Len(sections) THEN Return(rows)
  ELSE IF ~CanRead(sections[i]) THEN Throw(TypeErrorMsg)
  ELSE IF Get(sections[i], "questions").t # "array" THEN Throw(TypeErrorMsg)
  ELSE nextSection(sections, i,
         flattenQuestions(Get(sections[i], "questions").a, sections[i], 1, rows))

\* return {rows: rows, sectionCount: sections.length}
flattenResult(sections, r) ==
  IF r.threw THEN r
  ELSE Return([rows |-> r.value, sectionCount |-> Len(sections)])

flattenIntakeJSON(intakeData) ==
  IF ~CanRead(intakeData) \/ ~CanRead(Get(intakeData, "conversation_flow"))
  THEN Throw(TypeErrorMsg)
  ELSE IF Get(Get(intakeData, "conversation_flow"), "sections").t # "array"
  THEN Throw(TypeErrorMsg)
  ELSE flattenResult(Get(Get(intakeData, "conversation_flow"), "sections").a,
         flattenSections(Get(Get(intakeData, "conversation_flow"), "sections").a,
                         1, <<>>))

(***************************************************************************)
(* main.js: identity guard                                                 *)
(***************************************************************************)
\* Set.prototype.has compares with SameValueZero: primitives by value, objects
\* by reference (two parsed objects are never the same reference).
SameValueZero(a, b) == a.t \notin {"object", "array"} /\ a = b

SeqHas(seq, v) == \E i \in 1..Len(seq) : SameValueZero(seq[i], v)

\* ids.forEach(id => { if (seen.has(id)) duplicates.push(id); seen.add(id); })
RECURSIVE scanIds(_, _, _, _)
scanIds(ids, i, seen, duplicates) ==
  IF i > Len(ids) THEN duplicates
  ELSE scanIds(ids, i + 1,
               IF SeqHas(seen, ids[i]) THEN seen ELSE Append(seen, ids[i]),
               IF SeqHas(seen, ids[i]) THEN Append(duplicates, ids[i])
               ELSE duplicates)

\* [...new Set(values)]: first occurrences, in insertion order.
RECURSIVE uniqueValues(_, _, _)
uniqueValues(values, i, acc) ==
  IF i > Len(values) THEN acc
  ELSE uniqueValues(values, i + 1,
                    IF SeqHas(acc, values[i]) THEN acc ELSE Append(acc, values[i]))

checkDuplicateIds_NoDedupe(rows) ==
  scanIds([i \in 1..Len(rows) |-> rows[i][3]], 1, <<>>, <<>>)

checkDuplicateIds(rows) ==
  uniqueValues(scanIds([i \in 1..Len(rows) |-> rows[i][3]], 1, <<>>, <<>>), 1, <<>>)

(***************************************************************************)
(* main.js: naming resolver                                                *)
(***************************************************************************)
\* ss.getSheetByName(name), as a test for existence
sheetExists(ss, name) == name \in DOMAIN ss

\* while (ss.getSheetByName(`${baseName}_v${version}`)) version++
RECURSIVE nextVersion(_, _, _)
nextVersion(ss, baseName, version) ==
  IF sheetExists(ss, baseName \o "_v" \o ToString(version))
  THEN nextVersion(ss, baseName, version + 1)
  ELSE version

getVersionedSheetName_NoVersioning(ss, templateName, forceNew) ==
  "Intake_" \o ToStr(templateName)

getVersionedSheetName_FromThree(ss, templateName, forceNew) ==
  LET baseName == "Intake_" \o ToStr(templateName) IN
  IF ~forceNew /\ ~sheetExists(ss, baseName) THEN baseName
  ELSE baseName \o "_v" \o ToString(nextVersion(ss, baseName, 3))

getVersionedSheetName(ss, templateName, forceNew) ==
  LET baseName == "Intake_" \o ToStr(templateName) IN
  IF ~forceNew /\ ~sheetExists(ss, baseName) THEN baseName
  ELSE baseName \o "_v" \o ToString(nextVersion(ss, baseName, 2))

(***************************************************************************)
(* The spreadsheet: a sheet's grid is the sequence of its rows down to the  *)
(* last one written, a row the sequence of its cells (<<>> is a blank row). *)
(* Colours, fonts, widths and borders are not part of the model.            *)
(***************************************************************************)
NoSheets == [n \in {} |-> 0]

\* ss.insertSheet(name)
NewSheet ==
  [grid |-> <<>>, checkboxes |-> {}, protection |-> "", rangeProtections |-> {}]

Max(a, b) == IF a > b THEN a ELSE b

\* range.setValues / range.setValue: cells written into row r from column c on
setCells(grid, r, c, cells) ==
  LET padded == grid \o [i \in 1..(r - Len(grid)) |-> <<>>]
      old == padded[r]
      width == Max(Len(old), c + Len(cells) - 1)
  IN [padded EXCEPT ![r] =
        [j \in 1..width |->
           IF j >= c /\ j < c + Len(cells) THEN cells[j - c + 1]
           ELSE IF j <= Len(old) THEN old[j] ELSE Str("")]]

\* sheet.getRange(row, 1, rows.length, 12).setValues(rows)
RECURSIVE setValues(_, _, _)
setValues(grid, row, rows) ==
  IF Len(rows) = 0 THEN grid
  ELSE setValues(setCells(grid, row, 1, Head(rows)), row + 1, Tail(rows))

\* sheet.insertRowBefore(1): every row, checkbox and protected range moves down
insertRowBefore1(sheet) ==
  [sheet EXCEPT !.grid = <<(<<>>)>> \o @,
                !.checkboxes = {r + 1 : r \in @},
                !.rangeProtections =
                   {[col |-> rp.col, fromRow |-> rp.fromRow + 1,
                     description |-> rp.description] : rp \in @}]

(***************************************************************************)
(* sheetBuilder.js                                                         *)
(***************************************************************************)
headers ==
  << Str("section_id"), Str("section_name"), Str("question_id"), Str("question"),
     Str("context"), Str("type"), Str("required"), Str("validation"),
     Str("maps_to"), Str("default"), Str("examples"), Str("options") >>

HeaderRow == 3
FirstDataRow == 4

\* formatSheet, as far as it changes more than appearance: the checkboxes of
\* the required column
formatSheet(sheet, dataRowCount) ==
  [sheet EXCEPT !.checkboxes = FirstDataRow..(FirstDataRow + dataRowCount - 1)]

\* buildIntakeSheet without lines 13-17: a sheet that has the name is kept as it is
buildIntakeSheet_KeepExisting(ss, sheetName, parsedData) ==
  IF sheetName \in DOMAIN ss THEN ss
  ELSE LET withHeader == setCells(NewSheet.grid, HeaderRow, 1, headers)
           withRows == IF Len(parsedData.rows) > 0
                       THEN setValues(withHeader, FirstDataRow, parsedData.rows)
                       ELSE withHeader
       IN (sheetName :> formatSheet([NewSheet EXCEPT !.grid = withRows],
                                    Len(parsedData.rows)))
          @@ ss

\* The spreadsheet after buildIntakeSheet(sheetName, parsedData)
buildIntakeSheet(ss, sheetName, parsedData) ==
  LET kept == [n \in DOMAIN ss \ {sheetName} |-> ss[n]]
      withHeader == setCells(NewSheet.grid, HeaderRow, 1, headers)
      withRows == IF Len(parsedData.rows) > 0
                  THEN setValues(withHeader, FirstDataRow, parsedData.rows)
                  ELSE withHeader
  IN (sheetName :> formatSheet([NewSheet EXCEPT !.grid = withRows],
                               Len(parsedData.rows)))
     @@ kept

(***************************************************************************)
(* lockManager.js                                                          *)
(***************************************************************************)
LockNoticeRow == 2

\* The emoji that opens the notice in the source is left out of the string.
addProtectionIndicator(sheet) ==
  [sheet EXCEPT !.grid =
     setCells(setCells(@, LockNoticeRow, 1, <<Str("LOCKED SCHEMA")>>),
              LockNoticeRow, 2,
              <<Str("This sheet is protected and serves as an immutable reference")>>)]

protectCriticalColumns(sheet) ==
  [sheet EXCEPT !.rangeProtections =
     @ \cup {[col |-> c.col, fromRow |-> HeaderRow,
              description |-> "Protected: " \o c.name \o " - DO NOT MODIFY"] :
             c \in {[name |-> "section_id", col |-> 1],
                    [name |-> "section_name", col |-> 2],
                    [name |-> "question_id", col |-> 3],
                    [name |-> "maps_to", col |-> 9]}}]

\* The description's dash is a plain hyphen here.
lockSchema(sheet) ==
  protectCriticalColumns(
    addProtectionIndicator(
      [sheet EXCEPT !.protection = "Immutable schema - do not edit"]))

(***************************************************************************)
(* main.js: metadata banner                                                *)
(***************************************************************************)
addMetadata(sheet, intakeData, now) ==
  LET moved == insertRowBefore1(insertRowBefore1(sheet)) IN
  [moved EXCEPT !.grid =
     setCells(@, 1, 1,
       << Str("METADATA"),
          Str("Template: " \o ToStr(Get(intakeData, "template_name"))),
          Str("Version: " \o ToStr(Or(Get(intakeData, "template_version"), Str("1.0")))),
          Str("Imported: " \o now) >>)]

(***************************************************************************)
(* Inputs: the JSON texts handed to processIntakeJSON.  A text either does  *)
(* not parse (JSON.parse raises SyntaxError) or denotes a value.            *)
(***************************************************************************)
Text(v) == [parses |-> TRUE, value |-> v]
BadText == [parses |-> FALSE, value |-> Undef]

JSONparse(text) == IF text.parses THEN Return(text.value) ELSE Throw("SyntaxError")

Section(id, name, questions) ==
  Obj(<< <<"section_id", Str(id)>>, <<"section_name", Str(name)>>,
         <<"questions", Arr(questions)>> >>)

Question(id, prompt, type, more) ==
  Obj(<< <<"id", Str(id)>>, <<"question", Str(prompt)>>, <<"type", Str(type)>> >>
      \o more)

Doc(templateName, sections) ==
  Obj(<< <<"template_name", templateName>>,
         <<"conversation_flow", Obj(<< <<"sections", sections>> >>)>> >>)

TwitterField == <<"fields", Obj(<< <<"twitter", Obj(<< <<"type", Str("url")>> >>)>> >>)>>

\* Section 8, scenario 7 of the specification: 3 rows
SectionsContact ==
  << Section("s1", "Basics",
       << Question("q1", "Name?", "text", <<>>),
          Question("q2", "Links", "social_links_object", <<TwitterField>>) >>) >>

\* The same question id twice
SectionsDuplicate ==
  << Section("s1", "Basics",
       << Question("q1", "Name?", "text", <<>>),
          Question("q1", "Again?", "text", <<>>) >>) >>

\* A parent id equal to a synthesized child id
SectionsChildClash ==
  << Section("s1", "Basics",
       << Question("q2", "Links", "social_links_object", <<TwitterField>>),
          Question("q2.twitter", "Handle?", "text", <<>>) >>) >>

\* A section without questions: flattenIntakeJSON raises TypeError
SectionsNoQuestions == << Obj(<< <<"section_id", Str("s1")>> >>) >>

TemplateNames == {"X", "X_v2"}

OrchestratorTexts ==
  { BadText,
    Text(Null),
    Text(Obj(<< <<"conversation_flow", Obj(<< <<"sections", Arr(<<>>)>> >>)>> >>)),
    Text(Doc(Str(""), Arr(SectionsContact))),
    Text(Obj(<< <<"template_name", Str("X")>> >>)),
    Text(Doc(Str("X"), Null)) }
  \cup { Text(Doc(Str(tn), Arr(ss))) :
           tn \in TemplateNames,
           ss \in {SectionsContact, <<>>, SectionsDuplicate, SectionsChildClash,
                   SectionsNoQuestions} }

\* new Date().toLocaleString() at the time of the import; no claim reads it
Timestamps == {"1/1/2025, 10:00:00 AM"}

(***************************************************************************)
(* State                                                                   *)
(***************************************************************************)
VARIABLES
  sheets,   \* the active spreadsheet: sheet name -> sheet
  inv,      \* per caller: the running processIntakeJSON invocation
  call      \* a call of one of the pure functions: its input and its completion

vars == <<sheets, inv, call>>

Procs == {1, 2}

MaxSheets == 4

\* sheet is the Sheet object of `const sheet`: "none" until buildIntakeSheet
\* returns it, "live", or "deleted" once another invocation has deleted its
\* sheet; overlapped records that another invocation ran during this one.
Idle ==
  [pc |-> "idle", jsonContent |-> BadText, forceNewVersion |-> FALSE,
   intakeData |-> Undef, sheetName |-> "",
   parsedData |-> [rows |-> <<>>, sectionCount |-> 0],
   result |-> [success |-> FALSE, error |-> ""],
   before |-> NoSheets, deleted |-> FALSE, now |-> "",
   sheet |-> "none", overlapped |-> FALSE]

NoCall == [fn |-> "none", arg |-> Undef, st |-> "none", out |-> Undef]

\* A sheet made by hand before any import
LegacySheet == [NewSheet EXCEPT !.grid = << <<Str("legacy")>> >>]

PreexistingNames == {"Intake_X", "Intake_X_v2", "Intake_X_v3"}

Init ==
  /\ \E names \in SUBSET PreexistingNames : sheets = [n \in names |-> LegacySheet]
  /\ inv = [p \in Procs |-> Idle]
  /\ call = NoCall

(***************************************************************************)
(* main.js: processIntakeJSON, one action per statement of its try block    *)
(***************************************************************************)
\* catch (error) { return {success: false, error: error.message} }
Catch(p, message) ==
  inv' = [inv EXCEPT ![p].pc = "done",
                     ![p].result = [success |-> FALSE, error |-> message]]

\* The UI calls processIntakeJSON(jsonContent, forceNewVersion); calls do not overlap.
Start(p) ==
  /\ \A q \in Procs : inv[q].pc = "idle"
  /\ Cardinality(DOMAIN sheets) < MaxSheets
  /\ \E text \in OrchestratorTexts, force \in BOOLEAN :
       inv' = [inv EXCEPT ![p] = [Idle EXCEPT !.pc = "parse",
                                              !.jsonContent = text,
                                              !.forceNewVersion = force,
                                              !.before = sheets]]
  /\ UNCHANGED <<sheets, call>>

\* JSON.parse and the structural checks
ParseAndValidate(p) ==
  /\ inv[p].pc = "parse"
  /\ LET parsed == JSONparse(inv[p].jsonContent) IN
     IF parsed.threw THEN Catch(p, parsed.error)
     ELSE IF ~CanRead(parsed.value) THEN Catch(p, TypeErrorMsg)
     ELSE IF ~Truthy(Get(parsed.value, "template_name"))
       THEN Catch(p, "Missing template_name in JSON")
     ELSE IF \/ ~Truthy(Get(parsed.value, "conversation_flow"))
             \/ ~Truthy(Get(Get(parsed.value, "conversation_flow"), "sections"))
       THEN Catch(p, "Invalid JSON structure - missing conversation_flow.sections")
     ELSE inv' = [inv EXCEPT ![p].pc = "resolve", ![p].intakeData = parsed.value]
  /\ UNCHANGED <<sheets, call>>

\* const sheetName = getVersionedSheetName(intakeData.template_name, forceNewVersion)
ResolveName(p) ==
  /\ inv[p].pc = "resolve"
  /\ inv' = [inv EXCEPT ![p].pc = "flatten",
                        ![p].sheetName =
                           getVersionedSheetName(sheets,
                             Get(inv[p].intakeData, "template_name"),
                             inv[p].forceNewVersion)]
  /\ UNCHANGED <<sheets, call>>

\* const parsedData = flattenIntakeJSON(intakeData)
Flatten(p) ==
  /\ inv[p].pc = "flatten"
  /\ LET r == flattenIntakeJSON(inv[p].intakeData) IN
     IF r.threw THEN Catch(p, r.error)
     ELSE inv' = [inv EXCEPT ![p].pc = "check", ![p].parsedData = r.value]
  /\ UNCHANGED <<sheets, call>>

\* const duplicates = checkDuplicateIds(parsedData.rows); throw if there are any
CheckDuplicates(p) ==
  /\ inv[p].pc = "check"
  /\ LET duplicates == checkDuplicateIds(inv[p].parsedData.rows) IN
     IF Len(duplicates) > 0
     THEN Catch(p, "Duplicate question IDs found: " \o ArrayJoin(duplicates, ", "))
     ELSE inv' = [inv EXCEPT ![p].pc = "build"]
  /\ UNCHANGED <<sheets, call>>

\* const sheet = buildIntakeSheet(sheetName, parsedData)
Build(p) ==
  /\ inv[p].pc = "build"
  /\ sheets' = buildIntakeSheet(sheets, inv[p].sheetName, inv[p].parsedData)
  /\ inv' = [inv EXCEPT ![p].pc = "lock",
                        ![p].deleted = sheetExists(sheets, inv[p].sheetName)]
  /\ UNCHANGED call

\* lockSchema(sheet)
Lock(p) ==
  /\ inv[p].pc = "lock"
  /\ sheets' = [sheets EXCEPT ![inv[p].sheetName] = lockSchema(@)]
  /\ inv' = [inv EXCEPT ![p].pc = "metadata"]
  /\ UNCHANGED call

\* addMetadata(sheet, intakeData)
Metadata(p) ==
  /\ inv[p].pc = "metadata"
  /\ \E now \in Timestamps :
       /\ sheets' = [sheets EXCEPT ![inv[p].sheetName] =
                       addMetadata(@, inv[p].intakeData, now)]
       /\ inv' = [inv EXCEPT ![p].pc = "return", ![p].now = now]
  /\ UNCHANGED call

\* The identifiers a statement of processIntakeJSON can resolve: its parameters
\* and locals, and the top-level functions of the script files.
ScopeOfProcessIntakeJSON ==
  {"jsonContent", "forceNewVersion", "intakeData", "sheetName", "parsedData",
   "duplicates", "sheet",
   "onOpen", "showSidebar", "processIntakeJSON", "getVersionedSheetName",
   "checkDuplicateIds", "addMetadata", "previewJSON", "listSchemas", "showAbout",
   "flattenIntakeJSON", "isComplexType", "processStandardQuestion",
   "processComplexType", "formatValidation", "formatMapsTo", "formatExamples",
   "formatOptions", "buildIntakeSheet", "formatSheet", "setColumnWidths",
   "lockSchema", "addProtectionIndicator", "protectCriticalColumns",
   "isSheetLocked", "unlockSchema", "createBackupBeforeLock"}

\* return {success: true, sheetName, rowCount: rows.length, message: ...}
\* The object literal reads the identifier rows; an identifier that is not in
\* scope raises ReferenceError, which the catch block turns into a failure.
ReturnResult(p) ==
  /\ inv[p].pc = "return"
  /\ IF "rows" \in ScopeOfProcessIntakeJSON
     THEN inv' = [inv EXCEPT
            ![p].pc = "done",
            ![p].result =
               [success |-> TRUE, sheetName |-> inv[p].sheetName,
                rowCount |-> Len(inv[p].parsedData.rows),
                message |-> "Successfully created " \o inv[p].sheetName \o " with "
                            \o ToString(Len(inv[p].parsedData.rows)) \o " questions"]]
     ELSE Catch(p, "rows is not defined")
  /\ UNCHANGED <<sheets, call>>

\* The caller has the result; the next call may start.
Finish(p) ==
  /\ inv[p].pc = "done"
  /\ inv' = [inv EXCEPT ![p] = Idle]
  /\ UNCHANGED <<sheets, call>>

Next ==
  \E p \in Procs :
    \/ Start(p)
    \/ ParseAndValidate(p)
    \/ ResolveName(p)
    \/ Flatten(p)
    \/ CheckDuplicates(p)
    \/ Build(p)
    \/ Lock(p)
    \/ Metadata(p)
    \/ ReturnResult(p)
    \/ Finish(p)

Spec == Init /\ [][Next]_vars

(***************************************************************************)
(* Claims about the orchestrator, checked under Spec                       *)
(***************************************************************************)
\* The sheet the invocation of p has written
WrittenSheet(p) == sheets[inv[p].sheetName]

\* The input passes every check of processIntakeJSON: it parses, has a
\* template_name and conversation_flow.sections, flattens, and has no duplicate id.
ValidInput(text) ==
  /\ text.parses
  /\ CanRead(text.value)
  /\ Truthy(Get(text.value, "template_name"))
  /\ Truthy(Get(text.value, "conversation_flow"))
  /\ Truthy(Get(Get(text.value, "conversation_flow"), "sections"))
  /\ ~flattenIntakeJSON(text.value).threw
  /\ Len(checkDuplicateIds(flattenIntakeJSON(text.value).value.rows)) = 0

\* C1: whenever processIntakeJSON returns success=false, the spreadsheet is as it
\* was when the invocation started: no sheet created, deleted or written.
C1_FailureLeavesSpreadsheetUnchanged ==
  \A p \in Procs :
    (inv[p].pc = "done" /\ ~inv[p].result.success) => sheets = inv[p].before

\* C2: for every valid input processIntakeJSON returns success=true, with the
\* name getVersionedSheetName returned and the number of rows flattenIntakeJSON
\* returned.
C2_ValidInputSucceeds ==
  \A p \in Procs :
    (inv[p].pc = "done" /\ ValidInput(inv[p].jsonContent)) =>
      /\ inv[p].result.success
      /\ inv[p].result.sheetName =
           getVersionedSheetName(inv[p].before,
             Get(inv[p].jsonContent.value, "template_name"), inv[p].forceNewVersion)
      /\ inv[p].result.rowCount =
           Len(flattenIntakeJSON(inv[p].jsonContent.value).value.rows)

\* C3: after buildIntakeSheet, lockSchema and addMetadata on a new sheet with n
\* data rows, row 1 is the metadata banner, row 2 the lock notice, row 3 the
\* 12-column header and rows 4..3+n the data rows, 12 cells each.
C3_SheetLayout ==
  \A p \in Procs :
    inv[p].pc = "return" =>
      /\ Len(WrittenSheet(p).grid) = 3 + Len(inv[p].parsedData.rows)
      /\ WrittenSheet(p).grid[1][1] = Str("METADATA")
      /\ WrittenSheet(p).grid[2][1] = Str("LOCKED SCHEMA")
      /\ WrittenSheet(p).grid[3] = headers
      /\ \A i \in 1..Len(inv[p].parsedData.rows) :
           /\ WrittenSheet(p).grid[3 + i] = inv[p].parsedData.rows[i]
           /\ Len(WrittenSheet(p).grid[3 + i]) = 12

\* C4: during and after an invocation that does not overlap another, every
\* sheet that existed when it started still exists with the same contents, the
\* resolved name names none of them, and buildIntakeSheet deleted nothing.
C4_ExistingSheetsPreserved ==
  \A p \in Procs :
    inv[p].pc # "idle" =>
      /\ \A n \in DOMAIN inv[p].before :
           n \in DOMAIN sheets /\ sheets[n] = inv[p].before[n]
      /\ ~inv[p].deleted
      /\ inv[p].pc \in {"flatten", "check", "build", "lock", "metadata", "return"}
           => inv[p].sheetName \notin DOMAIN inv[p].before

\* C4 witness: an import for a template whose base sheet already existed has
\* written its sheet beside at least two older ones.
C4_Witness ==
  \E p \in Procs :
    /\ inv[p].pc = "return"
    /\ Cardinality(DOMAIN inv[p].before) >= 2
    /\ ("Intake_" \o ToStr(Get(inv[p].intakeData, "template_name")))
         \in DOMAIN inv[p].before
    /\ DOMAIN sheets = DOMAIN inv[p].before \cup {inv[p].sheetName}

\* The name "base_vk"
VersionName(base, k) == base \o "_v" \o ToString(k)

\* C5: getVersionedSheetName returns the base name when forceNew is false and
\* no sheet has it; otherwise base_vk for the smallest k >= 2 that names no
\* sheet, found within as many probes as there are sheets plus one; the name
\* returned never names an existing sheet.
C5_VersionedName ==
  \A p \in Procs :
    inv[p].pc = "flatten" =>
      /\ inv[p].sheetName \notin DOMAIN sheets
      /\ IF ~inv[p].forceNewVersion
            /\ ("Intake_" \o ToStr(Get(inv[p].intakeData, "template_name")))
                 \notin DOMAIN sheets
         THEN inv[p].sheetName =
                "Intake_" \o ToStr(Get(inv[p].intakeData, "template_name"))
         ELSE \E k \in 2..(Cardinality(DOMAIN sheets) + 2) :
                /\ inv[p].sheetName =
                     VersionName("Intake_"
                       \o ToStr(Get(inv[p].intakeData, "template_name")), k)
                /\ \A j \in 2..(k - 1) :
                     VersionName("Intake_"
                       \o ToStr(Get(inv[p].intakeData, "template_name")), j)
                       \in DOMAIN sheets

\* C5 witness: with Intake_X, Intake_X_v2 and Intake_X_v3 existing and
\* forceNew false, template X resolves to Intake_X_v4.
C5_Witness ==
  \E p \in Procs :
    /\ inv[p].pc = "flatten"
    /\ DOMAIN sheets = {"Intake_X", "Intake_X_v2", "Intake_X_v3"}
    /\ Get(inv[p].intakeData, "template_name") = Str("X")
    /\ ~inv[p].forceNewVersion
    /\ inv[p].sheetName = "Intake_X_v4"

(***************************************************************************)
(* Overlapping invocations: google.script.run starts processIntakeJSON once *)
(* per click of every open sidebar, and nothing in main.js takes a lock, so *)
(* SpecRace lets a second invocation start while the first is running and   *)
(* interleaves their statements.                                           *)
(***************************************************************************)
\* Documents for template X with different rows, and one for another template
RaceTexts ==
  { Text(Doc(Str("X"), Arr(SectionsContact))),
    Text(Doc(Str("X"), Arr(<<>>))),
    Text(Doc(Str("X_v2"), Arr(<<>>))) }

\* Imports start while the spreadsheet has fewer sheets than this
MaxRaceSheets == 2

\* The spreadsheet has a sheet with the base name of template X and none with
\* the base name of template X_v2
InitRace ==
  /\ sheets = [n \in {"Intake_X"} |-> LegacySheet]
  /\ inv = [p \in Procs |-> Idle]
  /\ call = NoCall

\* The invocation is between its call and its return
Active(p) == inv[p].pc \notin {"idle", "done"}

\* processIntakeJSON(jsonContent, forceNewVersion), called whatever the other
\* caller is doing
StartOverlapping(p) ==
  /\ inv[p].pc = "idle"
  /\ Cardinality(DOMAIN sheets) < MaxRaceSheets
  /\ \E text \in RaceTexts, force \in BOOLEAN :
       inv' = [q \in Procs |->
                 IF q = p
                 THEN [Idle EXCEPT !.pc = "parse",
                                   !.jsonContent = text,
                                   !.forceNewVersion = force,
                                   !.before = sheets,
                                   !.overlapped = \E r \in Procs \ {p} : Active(r)]
                 ELSE IF Active(q) THEN [inv[q] EXCEPT !.overlapped = TRUE]
                 ELSE inv[q]]
  /\ UNCHANGED <<sheets, call>>

\* const sheet = buildIntakeSheet(sheetName, parsedData): deleteSheet(existingSheet)
\* leaves the Sheet object another invocation holds for that sheet without a sheet
BuildOverlapping(p) ==
  /\ inv[p].pc = "build"
  /\ sheets' = buildIntakeSheet(sheets, inv[p].sheetName, inv[p].parsedData)
  /\ inv' = [q \in Procs |->
               IF q = p
               THEN [inv[p] EXCEPT !.pc = "lock",
                                   !.deleted = sheetExists(sheets, inv[p].sheetName),
                                   !.sheet = "live"]
               ELSE IF inv[q].sheet = "live" /\ inv[q].sheetName = inv[p].sheetName
               THEN [inv[q] EXCEPT !.sheet = "deleted"]
               ELSE inv[q]]
  /\ UNCHANGED call

\* lockSchema(sheet) on a sheet that exists
LockOverlapping(p) ==
  /\ inv[p].sheet = "live"
  /\ Lock(p)

\* addMetadata(sheet, intakeData) on a sheet that exists
MetadataOverlapping(p) ==
  /\ inv[p].sheet = "live"
  /\ Metadata(p)

\* lockSchema(sheet) or addMetadata(sheet, intakeData) on a Sheet object whose
\* sheet was deleted: the source does not say what the spreadsheet service does,
\* so the call either raises an exception, which the catch block returns, or
\* has no effect; in neither case does it write to the sheet that took the name.
DeletedSheet(p) ==
  /\ inv[p].pc \in {"lock", "metadata"}
  /\ inv[p].sheet = "deleted"
  /\ \/ Catch(p, "Sheet not found")
     \/ inv' = [inv EXCEPT ![p].pc = IF inv[p].pc = "lock" THEN "metadata"
                                     ELSE "return"]
  /\ UNCHANGED <<sheets, call>>

NextRace ==
  \E p \in Procs :
    \/ StartOverlapping(p)
    \/ ParseAndValidate(p)
    \/ ResolveName(p)
    \/ Flatten(p)
    \/ CheckDuplicates(p)
    \/ BuildOverlapping(p)
    \/ LockOverlapping(p)
    \/ MetadataOverlapping(p)
    \/ DeletedSheet(p)
    \/ ReturnResult(p)
    \/ Finish(p)

SpecRace == InitRace /\ [][NextRace]_vars

(***************************************************************************)
(* Claim about overlapping invocations, checked under SpecRace             *)
(***************************************************************************)
\* p and q have both run getVersionedSheetName and neither has run
\* buildIntakeSheet
BothResolved(p, q) ==
  /\ inv[p].pc \in {"flatten", "check", "build"}
  /\ inv[q].pc \in {"flatten", "check", "build"}

SameTemplate(p, q) ==
  Get(inv[p].intakeData, "template_name") = Get(inv[q].intakeData, "template_name")

BaseName(p) == "Intake_" \o ToStr(Get(inv[p].intakeData, "template_name"))

\* Both resolved one name, which no sheet has yet
SameFreeName(p, q) ==
  /\ inv[p].sheetName = inv[q].sheetName
  /\ inv[p].sheetName \notin DOMAIN sheets

\* The rows of the sheet below its header
DataRows(sheet, n) == SubSeq(sheet.grid, Len(sheet.grid) - n + 1, Len(sheet.grid))

\* p and q have both run buildIntakeSheet for one name: later built after earlier
ImportLost(earlier, later) ==
  /\ inv[later].deleted
  /\ inv[later].sheet = "live" /\ inv[earlier].sheet = "deleted"
  /\ inv[later].sheetName \in DOMAIN sheets
  /\ Len(sheets[inv[later].sheetName].grid) \in
       { HeaderRow + Len(inv[later].parsedData.rows),
         HeaderRow + 2 + Len(inv[later].parsedData.rows) }
  /\ DataRows(sheets[inv[later].sheetName], Len(inv[later].parsedData.rows)) =
       inv[later].parsedData.rows

\* What the claim says of the later buildIntakeSheet and of invocations that do
\* not overlap
LaterBuildReplaces ==
  /\ \A p, q \in Procs :
       (p # q /\ inv[p].sheet # "none" /\ inv[q].sheet # "none"
        /\ inv[p].sheetName = inv[q].sheetName)
         => (ImportLost(p, q) \/ ImportLost(q, p))
  /\ \A p \in Procs :
       inv[p].deleted =>
         /\ inv[p].overlapped
         /\ inv[p].sheetName \notin DOMAIN inv[p].before

\* C11 as stated: when two invocations for the same template name have both run
\* getVersionedSheetName before either runs buildIntakeSheet, both hold the same
\* sheet name; when both have built, the later one deleted the sheet the earlier
\* one created and the sheet under the name holds the later import only; and
\* buildIntakeSheet deletes a sheet only in an invocation that overlapped another.
C11_RaceAsStated ==
  /\ \A p, q \in Procs :
       (p # q /\ BothResolved(p, q) /\ SameTemplate(p, q)) => SameFreeName(p, q)
  /\ LaterBuildReplaces

\* No sheet has been created since p was called
NothingCreatedSince(p) == DOMAIN sheets = DOMAIN inv[p].before

\* C11, amended: the two invocations hold the same sheet name when no sheet has
\* been created since either was called (a third import that builds between
\* the two resolutions makes them differ) and they were called with the same
\* forceNewVersion or a sheet already has the base name (with different flags
\* and no base sheet one resolves the base name and the other base_v2); the
\* rest as stated.
C11_Race ==
  /\ \A p, q \in Procs :
       (p # q /\ BothResolved(p, q) /\ SameTemplate(p, q)
        /\ NothingCreatedSince(p) /\ NothingCreatedSince(q)
        /\ (inv[p].forceNewVersion = inv[q].forceNewVersion
            \/ BaseName(p) \in DOMAIN sheets))
         => SameFreeName(p, q)
  /\ LaterBuildReplaces

\* C11 witness: two imports of template X resolved Intake_X_v2 beside the
\* existing Intake_X; the one with three rows built first, the empty one built
\* second, deleted that sheet and holds the name; no other sheet changed.
C11_Witness ==
  \E p, q \in Procs :
    /\ p # q
    /\ SameTemplate(p, q)
    /\ inv[p].sheetName = "Intake_X_v2" /\ inv[q].sheetName = "Intake_X_v2"
    /\ inv[q].sheet = "deleted" /\ Len(inv[q].parsedData.rows) = 3
    /\ inv[p].sheet = "live" /\ inv[p].deleted /\ Len(inv[p].parsedData.rows) = 0
    /\ DOMAIN sheets = {"Intake_X", "Intake_X_v2"}
    /\ sheets["Intake_X"] = LegacySheet
    /\ Len(sheets["Intake_X_v2"].grid) = HeaderRow

(***************************************************************************)
(* The pure functions on their own: SpecPure starts with one call of one of *)
(* them on an input drawn from the sets below, and the action applies it.   *)
(***************************************************************************)
MaxNumber == 5
MaxEntries == 2
MaxFileTypes == 2
MaxFields == 2
MaxQuestions == 2
MaxSections == 2
MaxIds == 6

SeqsUpTo(S, n) == UNION {[1..m -> S] : m \in 0..n}

Min(a, b) == IF a < b THEN a ELSE b

Prefix(seq, n) == SubSeq(seq, 1, Min(n, Len(seq)))

DistinctKeys(e) == \A i, j \in 1..Len(e) : i # j => e[i][1] # e[j][1]

\* validation values: absent, null, strings, numbers from 0, mappings, true
ValidationMappings ==
  { Obj(e) : e \in { x \in SeqsUpTo({"min_length", "max_length", "pattern"}
                                   \X {Num(0), Num(8), Str("email")}, MaxEntries) :
                     DistinctKeys(x) } }

ValidationInputs ==
  {Undef, Null, Str(""), Str("required field"), Bool(TRUE)}
  \cup {Num(n) : n \in 0..MaxNumber}
  \cup ValidationMappings

\* An optional property: the empty sequence of entries when v is absent
Optional(key, v) == IF v = Undef THEN <<>> ELSE << <<key, v>> >>

SampleSection == Obj(<< <<"section_id", Str("s1")>>, <<"section_name", Str("Basics")>> >>)

FileTypeLists ==
  {Arr(Prefix(<<Str("pdf"), Str("png"), Str("jpg")>>, n)) : n \in 0..MaxFileTypes}

FileUploadQuestions ==
  { Question("q5", "Upload", "file_upload",
             Optional("validation", v) \o Optional("file_types", ft)
               \o Optional("max_size", ms)) :
      v \in {Undef, Str("required field"), Num(40)},
      ft \in {Undef} \cup FileTypeLists,
      ms \in {Undef} \cup {Num(n) : n \in 0..MaxNumber} }

\* Field configurations of the object question types, in declaration order
SampleFields ==
  << <<"name", Obj(<< <<"type", Str("text")>>, <<"required", Bool(TRUE)>> >>)>>,
     <<"price", Obj(<< <<"max_length", Num(8)>> >>)>>,
     <<"email", Obj(<< <<"validation", Str("email")>>, <<"default", Str("n/a")>> >>)>>,
     <<"notes", Obj(<<>>)>> >>

FieldsOf(n) == <<"fields", Obj(Prefix(SampleFields, n))>>

WellFormedQuestions ==
  { Question("q1", "Name?", "text", <<>>),
    Question("q2", "Plan", "select",
             << <<"options", Arr(<< Obj(<< <<"value", Str("b")>> >>),
                                    Obj(<< <<"label", Str("Pro")>> >>) >>)>> >>),
    Question("q6", "Notes", "text", <<FieldsOf(2)>>),
    Question("q7", "Stars", "rating", <<>>),
    Question("q4", "Tags", "text_array",
             << <<"max_items", Num(3)>>, <<"validation", Str("short")>> >>),
    Question("q5", "Upload", "file_upload",
             << <<"file_types", Arr(<<Str("pdf")>>)>>, <<"max_size", Num(5)>> >>),
    Question("q3", "Quote", "testimonial_object", <<FieldsOf(1)>>),
    Question("q3", "Links", "social_links_object", <<>>) }
  \cup { Question("q3", "Item", ty, <<FieldsOf(n)>>) :
           ty \in {"service_object", "social_links_object"}, n \in 0..MaxFields }

\* Shapes JSON allows that the projector does not expect
MalformedQuestions ==
  { Null,
    Question("q3", "Service", "service_object",
             << <<"fields", Obj(<< <<"name", Null>> >>)>> >>),
    Question("q2", "Plan", "select", << <<"options", Arr(<<Null>>)>> >>),
    Question("q5", "Upload", "file_upload", << <<"file_types", Str("pdf")>> >>) }

SampleQuestions == WellFormedQuestions \cup MalformedQuestions

\* Sections for the documents of several sections
ShortSections ==
  { Section("s1", "Basics", <<>>),
    Section("s2", "About", <<Question("q1", "Name?", "text", <<>>)>>),
    Section("s3", "Offer", <<Question("q3", "Item", "service_object", <<FieldsOf(1)>>),
                             Question("q4", "Tags", "text_array", <<>>)>>),
    Obj(<< <<"section_id", Str("s4")>> >>) }

\* Documents: one section of up to MaxQuestions questions, up to MaxSections
\* short sections, and the malformed section lists.
FlattenDocs ==
  { Doc(Str("T"), Arr(<<Section("s1", "Basics", qs)>>)) :
      qs \in SeqsUpTo(SampleQuestions, MaxQuestions) }
  \cup { Doc(Str("T"), Arr(secs)) : secs \in SeqsUpTo(ShortSections, MaxSections) }
  \cup { Doc(Str("T"), Arr(<<Null>>)),
         Doc(Str("T"), Arr(<<Obj(<< <<"questions", Obj(<<>>)>> >>)>>)),
         Doc(Str("T"), Obj(<<>>)),
         Doc(Str("T"), Num(1)),
         Doc(Str("T"), Null),
         Doc(Str(""), Arr(SectionsContact)),
         Doc(Str("T"), Arr(SectionsContact)) }

\* A row whose question_id cell is id
IdRow(id) ==
  << Str("s1"), Str("Basics"), id, Str("Q"), Str(""), Str("text"), Bool(TRUE),
     Str(""), Str(""), Str(""), Str(""), Str("") >>

DuplicateInputs ==
  { [i \in 1..Len(ids) |-> IdRow(ids[i])] :
      ids \in SeqsUpTo({Str("a"), Str("b"), Str("c")}, MaxIds) }
  \cup { flattenIntakeJSON(Doc(Str("T"), Arr(ss))).value.rows :
           ss \in {SectionsContact, SectionsDuplicate, SectionsChildClash} }

Ready(fn, arg) == [fn |-> fn, arg |-> arg, st |-> "ready", out |-> Undef]

InitPure ==
  /\ sheets = NoSheets
  /\ inv = [p \in Procs |-> Idle]
  /\ call \in { Ready("formatValidation", v) : v \in ValidationInputs }
         \cup { Ready("processComplexType", [question |-> q, section |-> SampleSection]) :
                  q \in FileUploadQuestions }
         \cup { Ready("flattenIntakeJSON", d) : d \in FlattenDocs }
         \cup { Ready("checkDuplicateIds", rows) : rows \in DuplicateInputs }

CallFormatValidation ==
  /\ call.st = "ready" /\ call.fn = "formatValidation"
  /\ call' = [call EXCEPT !.st = "returned",
                          !.out = Return(formatValidation(call.arg))]
  /\ UNCHANGED <<sheets, inv>>

CallProcessComplexType ==
  /\ call.st = "ready" /\ call.fn = "processComplexType"
  /\ call' = [call EXCEPT !.st = "returned",
                          !.out = processComplexType(call.arg.question,
                                                     call.arg.section)]
  /\ UNCHANGED <<sheets, inv>>

CallFlattenIntakeJSON ==
  /\ call.st = "ready" /\ call.fn = "flattenIntakeJSON"
  /\ call' = [call EXCEPT !.st = "returned", !.out = flattenIntakeJSON(call.arg)]
  /\ UNCHANGED <<sheets, inv>>

CallCheckDuplicateIds ==
  /\ call.st = "ready" /\ call.fn = "checkDuplicateIds"
  /\ call' = [call EXCEPT !.st = "returned",
                          !.out = Return(checkDuplicateIds(call.arg))]
  /\ UNCHANGED <<sheets, inv>>

NextPure ==
  \/ CallFormatValidation
  \/ CallProcessComplexType
  \/ CallFlattenIntakeJSON
  \/ CallCheckDuplicateIds

SpecPure == InitPure /\ [][NextPure]_vars

Returned(fn) == call.st = "returned" /\ call.fn = fn

(***************************************************************************)
(* Claims about the pure functions, checked under SpecPure                 *)
(***************************************************************************)
\* The question_id cells of rows
IdsOf(rows) == [i \in 1..Len(rows) |-> rows[i][3]]

Occurrences(ids, v) == Cardinality({i \in 1..Len(ids) : ids[i] = v})

\* C6: checkDuplicateIds returns exactly the ids that occur in more than one
\* row, each once; parent ids and synthesized child ids share one namespace
\* (the child q2.twitter collides with a question whose id is q2.twitter).
C6_DuplicateIds ==
  Returned("checkDuplicateIds") =>
    /\ \A i \in 1..Len(call.arg) :
         Occurrences(IdsOf(call.arg), call.arg[i][3]) > 1
           <=> \E j \in 1..Len(call.out.value) : call.out.value[j] = call.arg[i][3]
    /\ \A j \in 1..Len(call.out.value) :
         \E i \in 1..Len(call.arg) : call.arg[i][3] = call.out.value[j]
    /\ \A j, k \in 1..Len(call.out.value) :
         j # k => call.out.value[j] # call.out.value[k]
    /\ IdsOf(call.arg) = <<Str("q2"), Str("q2.twitter"), Str("q2.twitter")>>
         => call.out.value = <<Str("q2.twitter")>>

\* C6 witness: ids [a,b,a,c,b,b] give {a,b}, each once.
C6_Witness ==
  /\ Returned("checkDuplicateIds")
  /\ IdsOf(call.arg) = <<Str("a"), Str("b"), Str("a"), Str("c"), Str("b"), Str("b")>>
  /\ Len(call.out.value) = 2
  /\ {call.out.value[j] : j \in 1..2} = {Str("a"), Str("b")}

ObjectTypes == {"service_object", "testimonial_object", "social_links_object"}

\* Rows one question is to contribute: 1 + N for an object type with N fields
ExpectedRows(q) ==
  IF Get(q, "type") \in {Str(ty) : ty \in ObjectTypes} /\ HasKey(q, "fields")
  THEN 1 + Len(Get(q, "fields").e)
  ELSE 1

RECURSIVE SumQuestionRows(_)
SumQuestionRows(qs) ==
  IF Len(qs) = 0 THEN 0 ELSE ExpectedRows(Head(qs)) + SumQuestionRows(Tail(qs))

RECURSIVE SumSectionRows(_)
SumSectionRows(secs) ==
  IF Len(secs) = 0 THEN 0
  ELSE SumQuestionRows(Get(Head(secs), "questions").a) + SumSectionRows(Tail(secs))

RECURSIVE QuestionCount(_)
QuestionCount(secs) ==
  IF Len(secs) = 0 THEN 0
  ELSE Len(Get(Head(secs), "questions").a) + QuestionCount(Tail(secs))

SectionsOf(doc) == Get(Get(doc, "conversation_flow"), "sections").a

OnlyStandardTypes(secs) ==
  \A i \in 1..Len(secs) :
    \A j \in 1..Len(Get(secs[i], "questions").a) :
      ~isComplexType(Get(Get(secs[i], "questions").a[j], "type"))

\* C7: the number of rows flattenIntakeJSON returns is the sum over all
\* questions of 1 + N for an object-type question with N fields and 1 for every
\* other question; with standard types only it is the number of questions;
\* sectionCount is the number of sections.
C7_RowCount ==
  (Returned("flattenIntakeJSON") /\ ~call.out.threw) =>
    /\ Len(call.out.value.rows) = SumSectionRows(SectionsOf(call.arg))
    /\ call.out.value.sectionCount = Len(SectionsOf(call.arg))
    /\ OnlyStandardTypes(SectionsOf(call.arg))
         => Len(call.out.value.rows) = QuestionCount(SectionsOf(call.arg))

\* C7 witness: a service_object with two fields and a text_array give 3 + 1 rows.
C7_Witness ==
  /\ Returned("flattenIntakeJSON")
  /\ call.arg = Doc(Str("T"), Arr(<< Section("s1", "Basics",
                   << Question("q3", "Item", "service_object", <<FieldsOf(2)>>),
                      Question("q4", "Tags", "text_array",
                               << <<"max_items", Num(3)>>,
                                  <<"validation", Str("short")>> >>) >>) >>))
  /\ ~call.out.threw
  /\ Len(call.out.value.rows) = 4

\* "a,b,c" for the strings of an array
RECURSIVE CommaList(_)
CommaList(a) ==
  IF Len(a) = 0 THEN ""
  ELSE IF Len(a) = 1 THEN a[1].s
  ELSE CommaList(SubSeq(a, 1, Len(a) - 1)) \o "," \o a[Len(a)].s

\* The validation cell of a file_upload row, given which parts it includes
FileUploadCell(q, withTypes, withSize) ==
  IF withTypes /\ withSize
  THEN "file_types: " \o CommaList(Get(q, "file_types").a) \o ", "
         \o "max_size: " \o ToString(Get(q, "max_size").n)
  ELSE IF withTypes THEN "file_types: " \o CommaList(Get(q, "file_types").a)
  ELSE IF withSize THEN "max_size: " \o ToString(Get(q, "max_size").n)
  ELSE ""

\* C8 as stated: the validation cell of a file_upload row is the join of the
\* file_types part (iff file_types is present) and the max_size part (iff
\* max_size is present); the question's own validation never appears.
C8_FileUploadAsStated ==
  Returned("processComplexType") =>
    /\ ~call.out.threw
    /\ Len(call.out.value) = 1
    /\ call.out.value[1][8] =
         Str(FileUploadCell(call.arg.question,
                            HasKey(call.arg.question, "file_types"),
                            HasKey(call.arg.question, "max_size")))

\* C8 amended: as stated, except that the max_size part is included iff
\* max_size is present and not 0.
C8_FileUploadOverwrite ==
  Returned("processComplexType") =>
    /\ ~call.out.threw
    /\ Len(call.out.value) = 1
    /\ call.out.value[1][8] =
         Str(FileUploadCell(call.arg.question,
                            HasKey(call.arg.question, "file_types"),
                            /\ HasKey(call.arg.question, "max_size")
                            /\ Get(call.arg.question, "max_size").n # 0))

\* C8 witness: validation "required field", file_types [pdf,png], max_size 5
C8_Witness ==
  /\ Returned("processComplexType")
  /\ Get(call.arg.question, "validation") = Str("required field")
  /\ Get(call.arg.question, "file_types") = Arr(<<Str("pdf"), Str("png")>>)
  /\ Get(call.arg.question, "max_size") = Num(5)
  /\ call.out.value[1][8] = Str("file_types: pdf,png, max_size: 5")

\* The root-level structural check of processIntakeJSON
PassedStructuralCheck(doc) ==
  /\ CanRead(doc)
  /\ Truthy(Get(doc, "template_name"))
  /\ Truthy(Get(doc, "conversation_flow"))
  /\ Truthy(Get(Get(doc, "conversation_flow"), "sections"))

\* A question the projector can read throughout
WellShapedQuestion(q) ==
  /\ q # Null
  /\ ~ /\ Get(q, "options").t = "array"
       /\ \E i \in 1..Len(Get(q, "options").a) : Get(q, "options").a[i] = Null
       /\ Get(q, "options").a[1].t \in {"null", "object", "array"}
  /\ Get(q, "type") \in {Str(ty) : ty \in ObjectTypes} =>
       \A i \in 1..Len(Entries(Get(q, "fields"))) :
         Entries(Get(q, "fields"))[i][2] # Null
  /\ Get(q, "type") = Str("file_upload") =>
       Get(q, "file_types").t = "array" \/ ~Truthy(Get(q, "file_types"))

\* A document whose sections is an array of sections, each with an array of
\* questions the projector can read
WellShaped(doc) ==
  /\ Get(Get(doc, "conversation_flow"), "sections").t = "array"
  /\ \A i \in 1..Len(SectionsOf(doc)) :
       /\ SectionsOf(doc)[i].t = "object"
       /\ Get(SectionsOf(doc)[i], "questions").t = "array"
       /\ \A j \in 1..Len(Get(SectionsOf(doc)[i], "questions").a) :
            WellShapedQuestion(Get(SectionsOf(doc)[i], "questions").a[j])

RECURSIVE KeyValueList(_)
KeyValueList(e) ==
  IF Len(e) = 0 THEN ""
  ELSE IF Len(e) = 1 THEN e[1][1] \o ": " \o ToStr(e[1][2])
  ELSE KeyValueList(SubSeq(e, 1, Len(e) - 1)) \o ", "
         \o e[Len(e)][1] \o ": " \o ToStr(e[Len(e)][2])

\* What formatValidation is to return, zero being the rendering of the number 0
ExpectedValidation(v, zero) ==
  CASE v.t \in {"undefined", "null"} -> ""
    [] v.t = "string" -> v.s
    [] v.t = "number" -> (IF v.n = 0 THEN zero ELSE "max_length: " \o ToString(v.n))
    [] v.t = "object" -> KeyValueList(v.e)
    [] OTHER -> ""

\* C10 as stated: null and undefined give "", a string itself, every number n
\* including 0 "max_length: n", a mapping its "key: value" entries in key order.
C10_FormatValidationAsStated ==
  Returned("formatValidation") =>
    call.out.value = ExpectedValidation(call.arg, "max_length: 0")

\* C10 amended: as stated, except that the number 0 gives "".
C10_FormatValidation ==
  Returned("formatValidation") =>
    call.out.value = ExpectedValidation(call.arg, "")

\* C10 witness: the number 0 has been formatted, as the empty string.
C10_Witness ==
  /\ Returned("formatValidation")
  /\ call.arg = Num(0)
  /\ call.out.value = ""

====
